---------------------------- MODULE Spec2Model ----------------------------
(***************************************************************************)
(* PassPilot engine (src/engine/app.py): the Flask application that owns   *)
(* the process-wide exam_analyzer, its initialisation, and the analytical  *)
(* endpoints /query, /pass-strategy, /pass-simulation, /topics, /stats and *)
(* /health.                                                                *)
(*                                                                         *)
(* The class ExamAnalyzer (module exam_analyzer) is imported by app.py but *)
(* its source is not part of src/.  Its operations are modelled from the   *)
(* design document (sections 4.1 to 4.5); every such definition is marked  *)
(* "modelled from the design document" below.                              *)
(*                                                                         *)
(* Threads.  Flask serves each request in its own thread; the handlers     *)
(* read the global exam_analyzer afresh at every use (lines 173, 187, 192, *)
(* 193, ...).  A handler is therefore modelled as several steps: one step  *)
(* for the readiness test and the purely local input handling that follows *)
(* it, and one step per later read of the global.  The readiness test      *)
(* `not exam_analyzer or not exam_analyzer.is_fitted` reads the global     *)
(* twice, but the global never returns to None and the first read only     *)
(* tells None from an instance, so the outcome is always the readiness at  *)
(* the deciding read: one atomic step models it exactly.                   *)
(***************************************************************************)
EXTENDS Integers, Sequences, FiniteSets, TLC

(***************************************************************************)
(* Bounds of the model.                                                    *)
(***************************************************************************)
NumHandlers == 2     \* request threads that may run at the same time
MaxInits == 2        \* calls of initialize_exam_analyzer in one behaviour

VARIABLES
    corpus,          \* the question records found in DATA_FOLDER
    exam_analyzer,   \* the global: 0 is None, i > 0 the i-th ExamAnalyzer()
    is_fitted,       \* is_fitted of every instance
    init,            \* the thread running initialize_exam_analyzer
    handler          \* the request threads

vars == <<corpus, exam_analyzer, is_fitted, init, handler>>

Handlers == 1..NumHandlers
Instances == 1..MaxInits

(***************************************************************************)
(* Optional values: dict.get(key) of an absent key, a missing JSON body.   *)
(***************************************************************************)
None == <<>>
Some(v) == <<v>>
Get(o, default) == IF o = None THEN default ELSE o[1]

Max(a, b) == IF a >= b THEN a ELSE b
Min(a, b) == IF a <= b THEN a ELSE b

(***************************************************************************)
(* Text.  A string is a sequence of characters; " " is the only whitespace *)
(* character the requests of the model use.                                *)
(***************************************************************************)
IsSpace(ch) == ch = " "

RECURSIVE LStrip(_)
LStrip(s) == IF s # <<>> /\ IsSpace(Head(s)) THEN LStrip(Tail(s)) ELSE s

RECURSIVE RStrip(_)
RStrip(s) ==
    IF s # <<>> /\ IsSpace(s[Len(s)]) THEN RStrip(SubSeq(s, 1, Len(s) - 1)) ELSE s

\* str.strip()
Strip(s) == RStrip(LStrip(s))

DigitValue(ch) ==
    CASE ch = "0" -> 0 [] ch = "1" -> 1 [] ch = "2" -> 2 [] ch = "3" -> 3
      [] OTHER -> -1

IsDigits(s) == s # <<>> /\ \A i \in 1..Len(s) : DigitValue(s[i]) >= 0

RECURSIVE DigitsValue(_)
DigitsValue(s) ==
    IF s = <<>> THEN 0
    ELSE 10 * DigitsValue(SubSeq(s, 1, Len(s) - 1)) + DigitValue(s[Len(s)])

\* int(text): [ok |-> FALSE] stands for the ValueError int() raises.
ParseInt(s) ==
    IF IsDigits(Strip(s)) THEN [ok |-> TRUE, value |-> DigitsValue(Strip(s))]
    ELSE [ok |-> FALSE, value |-> 0]

(***************************************************************************)
(* The corpus (design document, section 3).  A Question carries a module   *)
(* (nullable), a topic label and a positive marks value.  Similarities are *)
(* in hundredths: 100 is cosine similarity 1.0.                            *)
(***************************************************************************)
Question(m, t, k) == [module |-> m, topic |-> t, marks |-> k]

\* Alphabetical order of the topic labels the corpora use.
TopicOrder == <<"Arrays", "Graphs", "Sorting">>

TopicRank(t) == CHOOSE i \in 1..Len(TopicOrder) : TopicOrder[i] = t

\* The four-question corpus of the design document's scenarios (section 8).
ScenarioCorpus ==
    << Question(Some("A"), "Arrays", 10), Question(Some("A"), "Arrays", 10),
       Question(Some("A"), "Sorting", 5), Question(Some("B"), "Graphs", 15) >>

RECURSIVE SumOver(_, _)
SumOver(f, S) ==
    IF S = {} THEN 0
    ELSE LET x == CHOOSE y \in S : TRUE IN f[x] + SumOver(f, S \ {x})

RECURSIVE ProductOver(_, _)
ProductOver(f, S) ==
    IF S = {} THEN 1
    ELSE LET x == CHOOSE y \in S : TRUE IN f[x] * ProductOver(f, S \ {x})

(***************************************************************************)
(* ExamAnalyzer.semantic_search, modelled from the design document         *)
(* (section 4.2): clamp the threshold into [0,1], keep the questions whose *)
(* similarity reaches it, sort by similarity descending with ties in       *)
(* corpus order, return at most top_k (none when top_k <= 0).  sims is the *)
(* cosine similarity of the query's embedding to each indexed question.    *)
(***************************************************************************)
ClampThreshold(t) == Max(0, Min(100, t))

SearchHit(c, i, s) ==
    [idx |-> i, similarity |-> s, module |-> c[i].module, marks |-> c[i].marks]

RECURSIVE Retain(_, _, _, _)
Retain(c, sims, thr, i) ==
    IF i > Len(c) THEN <<>>
    ELSE (IF sims[i] >= thr THEN <<SearchHit(c, i, sims[i])>> ELSE <<>>)
         \o Retain(c, sims, thr, i + 1)

\* Insert r behind every entry that is at least as similar: a stable sort.
RECURSIVE InsertBySimilarity(_, _)
InsertBySimilarity(sorted, r) ==
    IF sorted = <<>> THEN <<r>>
    ELSE IF Head(sorted).similarity >= r.similarity
         THEN <<Head(sorted)>> \o InsertBySimilarity(Tail(sorted), r)
         ELSE <<r>> \o sorted

RECURSIVE SortBySimilarity(_)
SortBySimilarity(rs) ==
    IF rs = <<>> THEN <<>>
    ELSE InsertBySimilarity(SortBySimilarity(SubSeq(rs, 1, Len(rs) - 1)),
                            rs[Len(rs)])

TakeTopK(rs, top_k) ==
    IF top_k <= 0 THEN <<>> ELSE SubSeq(rs, 1, Min(top_k, Len(rs)))

SemanticSearch(c, sims, threshold, top_k) ==
    TakeTopK(SortBySimilarity(Retain(c, sims, ClampThreshold(threshold), 1)),
             top_k)

(***************************************************************************)
(* ExamAnalyzer.get_module_distribution / get_marks_distribution, modelled *)
(* from the design document (section 4.3): a mapping from module (marks)   *)
(* to the number of results carrying it, an undefined module counted under *)
(* "unknown".  The loader admits only records with numeric positive marks, *)
(* so every result has a marks value.                                      *)
(***************************************************************************)
ModuleBucket(r) == Get(r.module, "unknown")

GetModuleDistribution(results) ==
    [m \in {ModuleBucket(results[i]) : i \in 1..Len(results)} |->
        Cardinality({i \in 1..Len(results) : ModuleBucket(results[i]) = m})]

GetMarksDistribution(results) ==
    [k \in {results[i].marks : i \in 1..Len(results)} |->
        Cardinality({i \in 1..Len(results) : results[i].marks = k})]

DistributionTotal(d) == SumOver(d, DOMAIN d)

(***************************************************************************)
(* TopicRecords (section 3) and ExamAnalyzer.get_topic_analysis /          *)
(* get_stats (section 4.3), modelled from the design document.  Average    *)
(* marks are rationals; they are kept exactly as numerators over the       *)
(* common denominator AvgScale(c).                                         *)
(***************************************************************************)
TopicsOf(c) == {c[i].topic : i \in 1..Len(c)}

Frequency(c, t) == Cardinality({i \in 1..Len(c) : c[i].topic = t})

TotalMarks(c, t) ==
    LET I == {i \in 1..Len(c) : c[i].topic = t}
    IN  SumOver([i \in I |-> c[i].marks], I)

AvgScale(c) == ProductOver([t \in TopicsOf(c) |-> Frequency(c, t)], TopicsOf(c))

\* average marks of topic t, times AvgScale(c)
ScaledAvg(c, t) ==
    IF t \in TopicsOf(c) THEN TotalMarks(c, t) * (AvgScale(c) \div Frequency(c, t))
    ELSE 0

TopicRecord(c, t) ==
    [topic |-> t, frequency |-> Frequency(c, t), total_marks |-> TotalMarks(c, t)]

\* Insert behind every record at least as frequent: ties keep the
\* alphabetical order in which the topics are fed.
RECURSIVE InsertByFrequency(_, _)
InsertByFrequency(sorted, r) ==
    IF sorted = <<>> THEN <<r>>
    ELSE IF Head(sorted).frequency >= r.frequency
         THEN <<Head(sorted)>> \o InsertByFrequency(Tail(sorted), r)
         ELSE <<r>> \o sorted

RECURSIVE TopicAnalysisFrom(_, _, _)
TopicAnalysisFrom(c, min_frequency, i) ==
    IF i = 0 THEN <<>>
    ELSE LET rest == TopicAnalysisFrom(c, min_frequency, i - 1)
             t == TopicOrder[i]
         IN  IF t \in TopicsOf(c) /\ Frequency(c, t) >= min_frequency
             THEN InsertByFrequency(rest, TopicRecord(c, t))
             ELSE rest

GetTopicAnalysis(c, min_frequency) ==
    TopicAnalysisFrom(c, min_frequency, Len(TopicOrder))

GetStats(c) ==
    [total_questions |-> Len(c),
     total_topics |-> Cardinality(TopicsOf(c)),
     modules |-> GetModuleDistribution(c)]

(***************************************************************************)
(* ExamAnalyzer.get_pass_strategy, modelled from the design document       *)
(* (section 4.4 and the scenarios of section 8): drop the studied topics,  *)
(* rank the rest, and accumulate average marks from the top of the ranking *)
(* until the running total reaches the target or the pool is exhausted.    *)
(* The running total starts at zero: in the scenario with "Sorting"        *)
(* studied and target 20, "Graphs" (15) alone does not suffice.  The       *)
(* ranking weight is left open by the document beyond "more frequent and   *)
(* higher average marks first", so ranked is any order of the pool that    *)
(* puts a topic ahead of every topic it dominates in both.                 *)
(***************************************************************************)
InSeq(x, s) == \E i \in 1..Len(s) : s[i] = x

TopicPool(c, studied) == {t \in TopicsOf(c) : ~InSeq(t, studied)}

\* a is at least as frequent and as valuable as b, and better in one
Dominates(c, a, b) ==
    /\ Frequency(c, a) >= Frequency(c, b)
    /\ TotalMarks(c, a) * Frequency(c, b) >= TotalMarks(c, b) * Frequency(c, a)
    /\ \/ Frequency(c, a) > Frequency(c, b)
       \/ TotalMarks(c, a) * Frequency(c, b) > TotalMarks(c, b) * Frequency(c, a)

Rankings(c, studied) ==
    LET pool == TopicPool(c, studied)
        n == Cardinality(pool)
    IN  {r \in [1..n -> pool] :
            /\ \A i, j \in 1..n : i # j => r[i] # r[j]
            /\ \A i, j \in 1..n : i < j => ~Dominates(c, r[j], r[i])}

\* Accumulate stopping only once the total exceeds the target.
RECURSIVE AccumulateStrict(_, _, _, _, _, _)
AccumulateStrict(c, ranked, target, k, total, chosen) ==
    IF total > target * AvgScale(c) \/ k > Len(ranked)
    THEN [recommended_topics |-> chosen,
          projected_marks |-> total,
          marks_scale |-> AvgScale(c),
          feasible |-> total > target * AvgScale(c)]
    ELSE AccumulateStrict(c, ranked, target, k + 1,
                          total + ScaledAvg(c, ranked[k]), Append(chosen, ranked[k]))

RECURSIVE Accumulate(_, _, _, _, _, _)
Accumulate(c, ranked, target, k, total, chosen) ==
    IF total >= target * AvgScale(c) \/ k > Len(ranked)
    THEN [recommended_topics |-> chosen,
          projected_marks |-> total,
          marks_scale |-> AvgScale(c),
          feasible |-> total >= target * AvgScale(c)]
    ELSE Accumulate(c, ranked, target, k + 1,
                    total + ScaledAvg(c, ranked[k]), Append(chosen, ranked[k]))

GetPassStrategy(c, ranked, target) == Accumulate(c, ranked, target, 1, 0, <<>>)

(***************************************************************************)
(* ExamAnalyzer.run_pass_simulation, modelled from the design document     *)
(* (section 4.5).  Every trial sums the average marks of the studied       *)
(* topics and of the non-studied topics mastered in that trial; a topic of *)
(* frequency f is mastered with probability min(f, 3)/4.  The randomness   *)
(* is a generator local to the invocation, started from the seed.          *)
(***************************************************************************)
NTrials == 2         \* trials of one simulation

NextRandom(x) == (5 * x + 3) % 16

\* the draw in 0..3 taken from generator state x
Draw(x) == x \div 4

MasteryWeight(c, t) == Min(Frequency(c, t), 3)

\* One trial over the topics TopicOrder[i..]: the generator state it ends
\* in and the total (times AvgScale(c)) it reaches.
RECURSIVE Trial(_, _, _, _, _)
Trial(c, studied, i, x, total) ==
    IF i > Len(TopicOrder) THEN [state |-> x, total |-> total]
    ELSE LET t == TopicOrder[i] IN
         IF t \notin TopicsOf(c) THEN Trial(c, studied, i + 1, x, total)
         ELSE IF InSeq(t, studied)
              THEN Trial(c, studied, i + 1, x, total + ScaledAvg(c, t))
              ELSE LET y == NextRandom(x) IN
                   Trial(c, studied, i + 1, y,
                         total + (IF Draw(y) < MasteryWeight(c, t)
                                  THEN ScaledAvg(c, t) ELSE 0))

RECURSIVE Trials(_, _, _, _, _, _)
Trials(c, studied, target, x, k, passes) ==
    IF k > NTrials THEN passes
    ELSE LET one == Trial(c, studied, 1, x, 0) IN
         Trials(c, studied, target, one.state, k + 1,
                passes + (IF one.total >= target * AvgScale(c) THEN 1 ELSE 0))

\* pass_probability is passes / trials
RunPassSimulation(c, studied, target, seed) ==
    [passes |-> Trials(c, studied, target, seed, 1, 0), trials |-> NTrials]

(***************************************************************************)
(* Requests.  A JSON body is None (request.get_json() gave nothing) or a   *)
(* dict; a dict is a record of optional fields, and `other` says that it   *)
(* holds some key the handler does not read (so that it is not empty).     *)
(***************************************************************************)
DefaultSimilarityThreshold == 50    \* data.get('similarity_threshold', 0.5)
DefaultTopK == 20                   \* data.get('top_k', 20)
DefaultInternalMarks == 0           \* data.get('internal_marks', 0)
DefaultExternalPassThreshold == 40  \* data.get('external_pass_threshold', 40)
DefaultOverallPassThreshold == 75   \* data.get('overall_pass_threshold', 75)
DefaultMinFrequency == <<"2">>      \* request.args.get('min_frequency', 2)

Optional(S) == {None} \cup {Some(x) : x \in S}

QueryDicts(texts, thresholds, topks) ==
    [query : Optional(texts), similarity_threshold : Optional(thresholds),
     top_k : Optional(topks), other : {FALSE}]
    \cup {[query |-> None, similarity_threshold |-> None, top_k |-> None,
           other |-> TRUE]}

PlanDicts(studied, internals, externals, overalls) ==
    [studied_topics : Optional(studied), internal_marks : Optional(internals),
     external_pass_threshold : Optional(externals),
     overall_pass_threshold : Optional(overalls), other : {FALSE}]
    \cup {[studied_topics |-> None, internal_marks |-> None,
           external_pass_threshold |-> None, overall_pass_threshold |-> None,
           other |-> TRUE]}

QueryRequests(texts, thresholds, topks) ==
    {[kind |-> "query", body |-> b] :
        b \in Optional(QueryDicts(texts, thresholds, topks))}

PlanRequests(kind, studied, internals, externals, overalls) ==
    {[kind |-> kind, body |-> b] :
        b \in Optional(PlanDicts(studied, internals, externals, overalls))}

\* GET requests: body holds the query string's min_frequency, if any.
TopicsRequests == {[kind |-> "topics", body |-> a] :
                      a \in Optional({<<"1">>, <<" ", "2">>, <<"x">>})}

StatsRequests == {[kind |-> "stats", body |-> None]}

\* bool(d) of a dict: it holds at least one key
QueryDictTruthy(d) ==
    d.other \/ d.query # None \/ d.similarity_threshold # None \/ d.top_k # None

PlanDictTruthy(d) ==
    \/ d.other \/ d.studied_topics # None \/ d.internal_marks # None
    \/ d.external_pass_threshold # None \/ d.overall_pass_threshold # None

(***************************************************************************)
(* The handlers' entry: the readiness test and the local handling of the   *)
(* input, up to the first call of the analyzer.  The outcome is a status   *)
(* (0: go on to the call) and the arguments of the call.                   *)
(***************************************************************************)
NoArgs == [none |-> TRUE]

Proceed(args) == [status |-> 0, args |-> args]
Reject(code) == [status |-> code, args |-> NoArgs]

\* `exam_analyzer and exam_analyzer.is_fitted`, the negation of the guard
AnalyzerReady(a, fit) == a # 0 /\ fit[a]

\* QueryEntry without the test of the stripped query.
QueryEntryNoStrip(data) ==
    IF data = None \/ ~QueryDictTruthy(data[1]) \/ Get(data[1].query, <<>>) = <<>>
    THEN Reject(400)
    ELSE Proceed([query |-> Strip(data[1].query[1]),
                  similarity_threshold |->
                      Get(data[1].similarity_threshold, DefaultSimilarityThreshold),
                  top_k |-> Get(data[1].top_k, DefaultTopK)])

\* QueryEntry always passing the default threshold.
QueryEntryDefaultThreshold(data) ==
    IF data = None \/ ~QueryDictTruthy(data[1]) \/ Get(data[1].query, <<>>) = <<>>
    THEN Reject(400)
    ELSE IF Strip(data[1].query[1]) = <<>>
    THEN Reject(400)
    ELSE Proceed([query |-> Strip(data[1].query[1]),
                  similarity_threshold |-> DefaultSimilarityThreshold,
                  top_k |-> Get(data[1].top_k, DefaultTopK)])

\* QueryEntry always passing the default top_k.
QueryEntryDefaultTopK(data) ==
    IF data = None \/ ~QueryDictTruthy(data[1]) \/ Get(data[1].query, <<>>) = <<>>
    THEN Reject(400)
    ELSE IF Strip(data[1].query[1]) = <<>>
    THEN Reject(400)
    ELSE Proceed([query |-> Strip(data[1].query[1]),
                  similarity_threshold |->
                      Get(data[1].similarity_threshold, DefaultSimilarityThreshold),
                  top_k |-> DefaultTopK])

\* semantic_query, after the guard
QueryEntry(data) ==
    IF data = None \/ ~QueryDictTruthy(data[1]) \/ Get(data[1].query, <<>>) = <<>>
    THEN Reject(400)
    ELSE IF Strip(data[1].query[1]) = <<>>
    THEN Reject(400)
    ELSE Proceed([query |-> Strip(data[1].query[1]),
                  similarity_threshold |->
                      Get(data[1].similarity_threshold, DefaultSimilarityThreshold),
                  top_k |-> Get(data[1].top_k, DefaultTopK)])

\* TargetExternalMarks adding the internal marks instead of crediting them.
TargetExternalMarksAdds(internal_marks, external_pass_threshold, overall_pass_threshold) ==
    Max(external_pass_threshold, overall_pass_threshold + internal_marks)

\* marks_needed_for_overall, target_external_marks
TargetExternalMarks(internal_marks, external_pass_threshold, overall_pass_threshold) ==
    Max(external_pass_threshold, overall_pass_threshold - internal_marks)

\* pass_strategy and pass_simulation, after the guard
PlanEntry(data) ==
    IF data = None \/ ~PlanDictTruthy(data[1])
    THEN Reject(400)
    ELSE Proceed([studied_topics |-> Get(data[1].studied_topics, <<>>),
                  internal_marks |-> Get(data[1].internal_marks, DefaultInternalMarks),
                  target |-> TargetExternalMarks(
                      Get(data[1].internal_marks, DefaultInternalMarks),
                      Get(data[1].external_pass_threshold, DefaultExternalPassThreshold),
                      Get(data[1].overall_pass_threshold, DefaultOverallPassThreshold))])

\* analyze_topics, after the guard: int() raises on a malformed value, and
\* Flask answers an uncaught exception with 500.
TopicsEntry(arg) ==
    LET parsed == ParseInt(Get(arg, DefaultMinFrequency)) IN
    IF parsed.ok THEN Proceed([min_frequency |-> parsed.value]) ELSE Reject(500)

\* HandlerEntry looking at the input before the readiness.
HandlerEntryInputFirst(kind, body, ready) ==
    LET e == CASE kind = "query" -> QueryEntry(body)
               [] kind \in {"strategy", "simulation"} -> PlanEntry(body)
               [] kind = "topics" -> TopicsEntry(body)
               [] OTHER -> Proceed(NoArgs)
    IN  IF e.status # 0 THEN e ELSE IF ~ready THEN Reject(503) ELSE e

HandlerEntry(kind, body, ready) ==
    IF ~ready THEN Reject(503)
    ELSE CASE kind = "query" -> QueryEntry(body)
           [] kind \in {"strategy", "simulation"} -> PlanEntry(body)
           [] kind = "topics" -> TopicsEntry(body)
           [] OTHER -> Proceed(NoArgs)

\* health_check's answer (the document-answering subsystem is left out)
HealthResponse(a, fit) ==
    [server_status |-> "healthy", exam_analyzer_ready |-> a # 0 /\ fit[a]]

\* QueryResponse counting the modules met instead of the results.
QueryResponseCountsModules(query, results, module_distribution, marks_distribution) ==
    [query |-> query, total_matches |-> Cardinality(DOMAIN module_distribution),
     results |-> results, module_distribution |-> module_distribution,
     marks_distribution |-> marks_distribution]

\* the body of semantic_query's answer
QueryResponse(query, results, module_distribution, marks_distribution) ==
    [query |-> query, total_matches |-> Len(results), results |-> results,
     module_distribution |-> module_distribution,
     marks_distribution |-> marks_distribution]

\* strategy['inputs'] / simulation_results['inputs']
PlanInputs(args) ==
    [internal_marks |-> args.internal_marks, studied_topics |-> args.studied_topics,
     calculated_target_marks |-> args.target]

\* analyze_topics' answer
TopicsResponse(min_frequency, topic_list) ==
    [total_topics |-> Len(topic_list),
     parameters |-> [min_frequency |-> min_frequency], topics |-> topic_list]

(***************************************************************************)
(* State.                                                                  *)
(***************************************************************************)
IdleHandler ==
    [kind |-> "idle", pc |-> "idle", body |-> None, status |-> 0,
     args |-> NoArgs, results |-> <<>>, module_distribution |-> <<>>,
     resp |-> None,
     \* history, read by the properties only
     ready_at_start |-> FALSE, after_missing_dir |-> FALSE,
     ops |-> <<>>, ops_fitted |-> TRUE]

IdleInit ==
    [pc |-> "idle", n |-> 0, dir_missing |-> FALSE, load_calls |-> 0,
     build_calls |-> 0, returned |-> "none"]

\* the readiness of the system, read off the state
SystemReady == exam_analyzer # 0 /\ is_fitted[exam_analyzer]

(***************************************************************************)
(* initialize_exam_analyzer, one step per statement that touches the       *)
(* global.  ExamAnalyzer() yields an instance that is not fitted;          *)
(* load_json_files and build_embeddings may raise, which the except clause *)
(* turns into `return False`; build_embeddings sets is_fitted on success   *)
(* and fails on a corpus without records (BuildFailure, section 7).        *)
(***************************************************************************)
\* exam_analyzer = ExamAnalyzer()
InitCreate ==
    /\ init.pc = "idle"
    /\ init.n < MaxInits
    /\ exam_analyzer' = init.n + 1
    /\ init' = [IdleInit EXCEPT !.pc = "created", !.n = init.n + 1]
    /\ UNCHANGED <<corpus, is_fitted, handler>>

\* InitCheckFolder going on to load although the folder is missing.
InitCheckFolderIgnored ==
    /\ init.pc = "created"
    /\ \E exists \in BOOLEAN :
          init' = IF exists THEN [init EXCEPT !.pc = "load"]
                  ELSE [init EXCEPT !.pc = "load", !.dir_missing = TRUE]
    /\ UNCHANGED <<corpus, exam_analyzer, is_fitted, handler>>

\* if not os.path.exists(DATA_FOLDER): return False
InitCheckFolder ==
    /\ init.pc = "created"
    /\ \E exists \in BOOLEAN :
          init' = IF exists THEN [init EXCEPT !.pc = "load"]
                  ELSE [init EXCEPT !.pc = "idle", !.dir_missing = TRUE,
                                    !.returned = "False"]
    /\ UNCHANGED <<corpus, exam_analyzer, is_fitted, handler>>

\* exam_analyzer.load_json_files(DATA_FOLDER)
InitLoad ==
    /\ init.pc = "load"
    /\ \E raised \in BOOLEAN :
          init' = IF raised
                  THEN [init EXCEPT !.pc = "idle", !.returned = "False",
                                    !.load_calls = @ + 1]
                  ELSE [init EXCEPT !.pc = "build", !.load_calls = @ + 1]
    /\ UNCHANGED <<corpus, exam_analyzer, is_fitted, handler>>

\* exam_analyzer.build_embeddings(); return True
InitBuild ==
    /\ init.pc = "build"
    /\ \E raised \in BOOLEAN :
          IF raised \/ corpus = <<>>
          THEN /\ init' = [init EXCEPT !.pc = "idle", !.returned = "False",
                                       !.build_calls = @ + 1]
               /\ UNCHANGED is_fitted
          ELSE /\ init' = [init EXCEPT !.pc = "idle", !.returned = "True",
                                       !.build_calls = @ + 1]
               /\ is_fitted' = [is_fitted EXCEPT ![exam_analyzer] = TRUE]
    /\ UNCHANGED <<corpus, exam_analyzer, handler>>

(***************************************************************************)
(* The request handlers.                                                   *)
(***************************************************************************)
\* health_check
HealthCheck(h) ==
    /\ handler[h].pc = "idle"
    /\ handler' = [handler EXCEPT ![h] =
          [IdleHandler EXCEPT !.kind = "health", !.pc = "done", !.status = 200,
              !.resp = Some(HealthResponse(exam_analyzer, is_fitted)),
              !.ready_at_start = SystemReady,
              !.after_missing_dir = init.pc = "idle" /\ init.dir_missing]]
    /\ UNCHANGED <<corpus, exam_analyzer, is_fitted, init>>

\* An analytical handler starts on request r: the guard, then the input.
Start(h, r) ==
    /\ handler[h].pc = "idle"
    /\ LET e == HandlerEntry(r.kind, r.body,
                             AnalyzerReady(exam_analyzer, is_fitted))
       IN  handler' = [handler EXCEPT ![h] =
              [IdleHandler EXCEPT !.kind = r.kind, !.body = r.body,
                  !.pc = IF e.status = 0 THEN "call" ELSE "done",
                  !.status = e.status, !.args = e.args,
                  !.ready_at_start = SystemReady,
                  !.after_missing_dir = init.pc = "idle" /\ init.dir_missing]]
    /\ UNCHANGED <<corpus, exam_analyzer, is_fitted, init>>

\* What the handler notes when it invokes operation op of the instance the
\* global names now.
Invoked(me, op) ==
    [me EXCEPT !.ops = Append(@, op), !.ops_fitted = @ /\ is_fitted[exam_analyzer]]

Answer(me, op, resp) ==
    [Invoked(me, op) EXCEPT !.pc = "done", !.status = 200, !.resp = Some(resp)]

OpOf(me) ==
    CASE me.pc = "module_distribution" -> "get_module_distribution"
      [] me.pc = "marks_distribution" -> "get_marks_distribution"
      [] me.kind = "query" -> "semantic_search"
      [] me.kind = "strategy" -> "get_pass_strategy"
      [] me.kind = "simulation" -> "run_pass_simulation"
      [] me.kind = "topics" -> "get_topic_analysis"
      [] OTHER -> "get_stats"

\* An operation invoked on an instance that is not fitted fails fast
\* (NotReady, section 7); the handler does not catch it: 500.
OpNotReady(h) ==
    /\ handler[h].pc \in {"call", "module_distribution", "marks_distribution"}
    /\ ~is_fitted[exam_analyzer]
    /\ handler' = [handler EXCEPT ![h] =
          [Invoked(@, OpOf(@)) EXCEPT !.pc = "done", !.status = 500]]
    /\ UNCHANGED <<corpus, exam_analyzer, is_fitted, init>>

\* results = exam_analyzer.semantic_search(query, similarity_threshold, top_k)
CallSearch(h, simvals) ==
    /\ handler[h].pc = "call" /\ handler[h].kind = "query"
    /\ is_fitted[exam_analyzer]
    /\ \E sims \in [1..Len(corpus) -> simvals] :
          LET me == handler[h] IN
          handler' = [handler EXCEPT ![h] =
             [Invoked(me, "semantic_search") EXCEPT
                 !.pc = "module_distribution",
                 !.results = SemanticSearch(corpus, sims,
                     me.args.similarity_threshold, me.args.top_k)]]
    /\ UNCHANGED <<corpus, exam_analyzer, is_fitted, init>>

\* 'module_distribution': exam_analyzer.get_module_distribution(results)
CallModuleDistribution(h) ==
    /\ handler[h].pc = "module_distribution"
    /\ is_fitted[exam_analyzer]
    /\ LET me == handler[h] IN
       handler' = [handler EXCEPT ![h] =
          [Invoked(me, "get_module_distribution") EXCEPT
              !.pc = "marks_distribution",
              !.module_distribution = GetModuleDistribution(me.results)]]
    /\ UNCHANGED <<corpus, exam_analyzer, is_fitted, init>>

\* 'marks_distribution': exam_analyzer.get_marks_distribution(results)
CallMarksDistribution(h) ==
    /\ handler[h].pc = "marks_distribution"
    /\ is_fitted[exam_analyzer]
    /\ handler' = [handler EXCEPT ![h] =
          Answer(@, "get_marks_distribution",
                 QueryResponse(@.args.query, @.results, @.module_distribution,
                               GetMarksDistribution(@.results)))]
    /\ UNCHANGED <<corpus, exam_analyzer, is_fitted, init>>

\* strategy = exam_analyzer.get_pass_strategy(studied_topics, target_external_marks)
CallStrategy(h) ==
    /\ handler[h].pc = "call" /\ handler[h].kind = "strategy"
    /\ is_fitted[exam_analyzer]
    /\ \E ranked \in Rankings(corpus, handler[h].args.studied_topics) :
          handler' = [handler EXCEPT ![h] =
             Answer(@, "get_pass_strategy",
                    [strategy |-> GetPassStrategy(corpus, ranked, @.args.target),
                     inputs |-> PlanInputs(@.args)])]
    /\ UNCHANGED <<corpus, exam_analyzer, is_fitted, init>>

\* simulation_results = exam_analyzer.run_pass_simulation(studied_topics,
\* target_external_marks): the handler passes no seed, so the generator of
\* the invocation starts from a seed of its own.
CallSimulation(h, seeds) ==
    /\ handler[h].pc = "call" /\ handler[h].kind = "simulation"
    /\ is_fitted[exam_analyzer]
    /\ \E seed \in seeds :
          handler' = [handler EXCEPT ![h] =
             Answer(@, "run_pass_simulation",
                    [simulation |-> RunPassSimulation(corpus,
                         @.args.studied_topics, @.args.target, seed),
                     inputs |-> PlanInputs(@.args)])]
    /\ UNCHANGED <<corpus, exam_analyzer, is_fitted, init>>

\* topic_list = exam_analyzer.get_topic_analysis(min_frequency)
CallTopics(h) ==
    /\ handler[h].pc = "call" /\ handler[h].kind = "topics"
    /\ is_fitted[exam_analyzer]
    /\ handler' = [handler EXCEPT ![h] =
          Answer(@, "get_topic_analysis",
                 TopicsResponse(@.args.min_frequency,
                     GetTopicAnalysis(corpus, @.args.min_frequency)))]
    /\ UNCHANGED <<corpus, exam_analyzer, is_fitted, init>>

\* return jsonify(exam_analyzer.get_stats())
CallStats(h) ==
    /\ handler[h].pc = "call" /\ handler[h].kind = "stats"
    /\ is_fitted[exam_analyzer]
    /\ handler' = [handler EXCEPT ![h] = Answer(@, "get_stats", GetStats(corpus))]
    /\ UNCHANGED <<corpus, exam_analyzer, is_fitted, init>>

\* The response is sent and the thread is free for the next request.
Reply(h) ==
    /\ handler[h].pc = "done"
    /\ handler' = [handler EXCEPT ![h] = IdleHandler]
    /\ UNCHANGED <<corpus, exam_analyzer, is_fitted, init>>

(***************************************************************************)
(* The system: the initialisation thread and NumHandlers request threads,  *)
(* interleaved freely.                                                     *)
(***************************************************************************)
\* the data directories of the model
Corpora ==
    { <<>>, ScenarioCorpus,
      << Question(None, "Graphs", 15), Question(Some("B"), "Graphs", 5) >> }

SimValues == {50, 100}
MaxSeed == 2         \* seeds a simulation may start from: 0..MaxSeed

Requests ==
    QueryRequests({<<" ">>, <<" ", "q">>}, {}, {1})
    \cup PlanRequests("strategy", {<<"Sorting">>}, {50}, {10}, {})
    \cup PlanRequests("simulation", {<<"Sorting">>}, {50}, {10}, {})
    \cup TopicsRequests \cup StatsRequests

Init ==
    /\ corpus \in Corpora
    /\ exam_analyzer = 0
    /\ is_fitted = [i \in Instances |-> FALSE]
    /\ init = IdleInit
    /\ handler = [h \in Handlers |-> IdleHandler]

Initialize == InitCreate \/ InitCheckFolder \/ InitLoad \/ InitBuild

Handle(h, requests, simvals, seeds) ==
    \/ HealthCheck(h)
    \/ \E r \in requests : Start(h, r)
    \/ OpNotReady(h)
    \/ CallSearch(h, simvals)
    \/ CallModuleDistribution(h)
    \/ CallMarksDistribution(h)
    \/ CallStrategy(h)
    \/ CallSimulation(h, seeds)
    \/ CallTopics(h)
    \/ CallStats(h)
    \/ Reply(h)

Next ==
    \/ Initialize
    \/ \E h \in Handlers : Handle(h, Requests, SimValues, 0..MaxSeed)

Spec == Init /\ [][Next]_vars

(***************************************************************************)
(* The same system with one request thread, over every data directory of   *)
(* up to MaxQuestions records and a wider range of requests.               *)
(***************************************************************************)
MaxQuestions == 3    \* records of a data directory

QuestionKinds ==
    { Question(Some("A"), "Arrays", 10), Question(None, "Arrays", 5),
      Question(Some("B"), "Sorting", 5) }

WideCorpora == UNION {[1..n -> QuestionKinds] : n \in 0..MaxQuestions}

WideSimValues == {50, 100}

WideRequests ==
    QueryRequests({<<>>, <<" ">>, <<" ", "q", " ">>}, {-10, 150}, {-1, 0, 1})
    \cup PlanRequests("strategy", {<<"Sorting">>, <<"Arrays", "Trees">>},
                      {60, 65}, {5}, {})
    \cup PlanRequests("simulation", {}, {50}, {}, {100})
    \cup TopicsRequests \cup StatsRequests

InitSingle ==
    /\ corpus \in WideCorpora
    /\ exam_analyzer = 0
    /\ is_fitted = [i \in Instances |-> FALSE]
    /\ init = IdleInit
    /\ handler = [h \in Handlers |-> IdleHandler]

NextSingle ==
    \/ Initialize
    \/ Handle(1, WideRequests, WideSimValues, 0..MaxSeed)

SpecSingle == InitSingle /\ [][NextSingle]_vars

(***************************************************************************)
(* Properties.                                                             *)
(***************************************************************************)
Analytical == {"query", "strategy", "simulation", "topics", "stats"}

Planning == {"strategy", "simulation"}

\* C1: an analytical handler that starts while the analyzer is unset or
\* not fitted answers 503 and invokes no operation of the analyzer,
\* whatever its input; so no handler that started on a system that was not
\* ready answers 400.
C1_NotReadyAnswers503 ==
    \A h \in Handlers :
        LET me == handler[h] IN
        me.kind \in Analytical =>
            /\ ~me.ready_at_start =>
                  me.status = 503 /\ me.ops = <<>> /\ me.pc = "done"
            /\ me.status = 400 => me.ready_at_start

\* A request without a body, which a ready system answers 400, was
\* answered 503 by a system that was not ready.
C1_Witness ==
    \E h \in Handlers :
        /\ handler[h].kind \in {"query", "strategy", "simulation"}
        /\ handler[h].body = None
        /\ ~handler[h].ready_at_start
        /\ handler[h].status = 503

\* C2: a call of initialize_exam_analyzer that finds the data folder
\* missing returns False without calling load_json_files or
\* build_embeddings and leaves the system not ready; until the next
\* initialisation /health reports exam_analyzer_ready = false and every
\* analytical endpoint answers 503.
C2_MissingDataFolder ==
    /\ (init.pc = "idle" /\ init.dir_missing) =>
          /\ init.returned = "False"
          /\ init.load_calls = 0 /\ init.build_calls = 0
          /\ ~SystemReady
    /\ \A h \in Handlers :
          LET me == handler[h] IN
          me.after_missing_dir =>
              /\ me.kind = "health" => ~me.resp[1].exam_analyzer_ready
              /\ me.kind \in Analytical => me.status = 503 /\ me.ops = <<>>

\* The second initialisation found the folder missing after the first had
\* made the system ready, and a request with a valid body was then answered
\* 503 by an analytical endpoint.
C2_Witness ==
    /\ init.pc = "idle" /\ init.dir_missing /\ init.n = 2 /\ is_fitted[1]
    /\ \E h \in Handlers :
          /\ handler[h].kind \in Analytical /\ handler[h].after_missing_dir
          /\ handler[h].body # None
          /\ handler[h].status = 503

\* the target the request of handler h asks for, from its body
RequestedInternal(h) == Get(handler[h].body[1].internal_marks, 0)
RequestedExternal(h) == Get(handler[h].body[1].external_pass_threshold, 40)
RequestedOverall(h) == Get(handler[h].body[1].overall_pass_threshold, 75)
RequestedTarget(h) ==
    IF RequestedExternal(h) >= RequestedOverall(h) - RequestedInternal(h)
    THEN RequestedExternal(h)
    ELSE RequestedOverall(h) - RequestedInternal(h)

CalledPlanner(h) == handler[h].kind \in Planning /\ handler[h].ops # <<>>

MaxMarks == 100    \* the internal marks compared in C9

\* C8: two /pass-simulation requests with the same body, answered from the
\* same fitted corpus, return the same simulation result.
C8_IdenticalRequestsAgree ==
    \A h1, h2 \in Handlers :
        /\ handler[h1].kind = "simulation" /\ handler[h1].status = 200
        /\ handler[h2].kind = "simulation" /\ handler[h2].status = 200
        /\ handler[h1].body = handler[h2].body
        => handler[h1].resp = handler[h2].resp

\* C9: /pass-strategy and /pass-simulation pass to the analyzer the target
\* max(external_pass_threshold, overall_pass_threshold - internal_marks)
\* (defaults 40, 75 and 0) and the studied topics as received, and echo
\* that target as inputs.calculated_target_marks; the target is never
\* below external_pass_threshold and does not grow with internal_marks.
C9_TargetMarks ==
    /\ \A h \in Handlers :
          CalledPlanner(h) =>
              /\ handler[h].args.target = RequestedTarget(h)
              /\ handler[h].args.studied_topics =
                    Get(handler[h].body[1].studied_topics, <<>>)
              /\ handler[h].args.target >= RequestedExternal(h)
              /\ handler[h].status = 200 =>
                    /\ handler[h].resp[1].inputs.calculated_target_marks =
                          RequestedTarget(h)
                    /\ handler[h].resp[1].inputs.studied_topics =
                          Get(handler[h].body[1].studied_topics, <<>>)
    /\ \A h \in Handlers :
          CalledPlanner(h) =>
              \A more \in RequestedInternal(h)..MaxMarks :
                  TargetExternalMarks(more, RequestedExternal(h),
                                      RequestedOverall(h))
                    <= handler[h].args.target

\* A request that brought internal marks was answered with a target above
\* its external threshold and below its overall threshold.
C9_Witness ==
    \E h \in Handlers :
        /\ handler[h].kind \in Planning /\ handler[h].status = 200
        /\ RequestedInternal(h) > 0
        /\ handler[h].resp[1].inputs.calculated_target_marks
              > RequestedExternal(h)
        /\ handler[h].resp[1].inputs.calculated_target_marks
              < RequestedOverall(h)

\* C10: every operation of the analyzer a handler invokes runs on an
\* instance that is fitted at the time of the call, in every interleaving
\* with initialize_exam_analyzer.
C10_OpsRunOnFittedInstance ==
    \A h \in Handlers : handler[h].ops_fitted

\* what the /query request of handler h asks for, from its body
RequestedThreshold(h) == Get(handler[h].body[1].similarity_threshold, 50)
RequestedTopK(h) == Get(handler[h].body[1].top_k, 20)

\* the body carries no query, or one that is empty once trimmed
NoQueryText(body) ==
    \/ body = None
    \/ body[1].query = None
    \/ \A i \in 1..Len(body[1].query[1]) : body[1].query[1][i] = " "

\* semantic_search has returned to handler h
Searched(h) ==
    /\ handler[h].kind = "query"
    /\ handler[h].ops # <<>>
    /\ handler[h].pc # "done" \/ Len(handler[h].ops) > 1 \/ handler[h].status = 200

\* C3 as stated: on a ready system the analyzer is invoked by /query only
\* for a non-empty trimmed query and a positive top_k; any other input is
\* answered 400 with nothing invoked.
C3_InvalidInputRejected ==
    \A h \in Handlers :
        LET me == handler[h] IN
        (me.kind = "query" /\ me.ready_at_start) =>
            /\ me.ops # <<>> => ~NoQueryText(me.body) /\ RequestedTopK(h) > 0
            /\ NoQueryText(me.body) =>
                  me.status = 400 /\ me.ops = <<>> /\ me.pc = "done"

\* C3, amended: on a ready system a /query request without a body, without
\* a query field or with a query that is empty once trimmed is answered
\* 400 with no operation of the analyzer invoked; the operations are
\* invoked only for a non-empty trimmed query.  top_k is not validated: a
\* request with a query text is never answered 400, whatever its top_k.
C3_InvalidQueryRejected ==
    \A h \in Handlers :
        LET me == handler[h] IN
        (me.kind = "query" /\ me.ready_at_start) =>
            /\ me.ops # <<>> => ~NoQueryText(me.body)
            /\ NoQueryText(me.body) =>
                  me.status = 400 /\ me.ops = <<>> /\ me.pc = "done"
            /\ ~NoQueryText(me.body) => me.status # 400

\* A ready system answered 400 to a query of whitespace that asked for a
\* non-positive top_k.
C3_Witness ==
    \E h \in Handlers :
        /\ handler[h].kind = "query" /\ handler[h].ready_at_start
        /\ handler[h].body # None
        /\ handler[h].body[1].query = Some(<<" ">>)
        /\ handler[h].body[1].top_k = Some(0)
        /\ handler[h].status = 400

SortedBySimilarity(rs) ==
    \A i, j \in 1..Len(rs) :
        i < j => \/ rs[i].similarity > rs[j].similarity
                 \/ rs[i].similarity = rs[j].similarity /\ rs[i].idx < rs[j].idx

\* C4 as stated: every result of a search has a similarity at least the
\* requested threshold, and the results are in non-increasing order of
\* similarity, equal similarities in corpus order.
C4_ResultsReachThreshold ==
    \A h \in Handlers :
        Searched(h) =>
            /\ \A i \in 1..Len(handler[h].results) :
                  handler[h].results[i].similarity >= RequestedThreshold(h)
            /\ SortedBySimilarity(handler[h].results)

\* C4, amended: every result of a search has a similarity at least the
\* requested threshold clamped into [0, 1] (so at least the requested
\* threshold whenever that is at most 1), and the results are in
\* non-increasing order of similarity, equal similarities in corpus order.
C4_ResultsReachClampedThreshold ==
    \A h \in Handlers :
        Searched(h) =>
            /\ \A i \in 1..Len(handler[h].results) :
                  LET t == RequestedThreshold(h)
                      s == handler[h].results[i].similarity
                  IN  /\ s >= (IF t > 100 THEN 100 ELSE IF t < 0 THEN 0 ELSE t)
                      /\ t <= 100 => s >= t
            /\ SortedBySimilarity(handler[h].results)

\* A search returned three results, the last-loaded question first and the
\* two others, equally similar, behind it in corpus order.
C4_Witness ==
    \E h \in Handlers :
        /\ Searched(h)
        /\ Len(handler[h].results) = 3
        /\ handler[h].results[1].idx = 3
        /\ handler[h].results[2].similarity = handler[h].results[3].similarity
        /\ RequestedThreshold(h) = 50

\* C5: a search returns at most top_k results when top_k > 0 and none when
\* top_k <= 0, and total_matches of the /query answer is the number of
\* results it carries, so it is 0 exactly when there are none.
C5_AtMostTopK ==
    \A h \in Handlers :
        LET me == handler[h] IN
        /\ Searched(h) =>
              /\ RequestedTopK(h) > 0 => Len(me.results) <= RequestedTopK(h)
              /\ RequestedTopK(h) <= 0 => me.results = <<>>
        /\ (me.kind = "query" /\ me.status = 200) =>
              /\ me.resp[1].results = me.results
              /\ me.resp[1].total_matches = Len(me.resp[1].results)
              /\ me.resp[1].total_matches = 0 <=> me.resp[1].results = <<>>

\* A query asking for one result was answered with one, although all three
\* questions of the corpus reached the threshold.
C5_Witness ==
    \E h \in Handlers :
        /\ handler[h].kind = "query" /\ handler[h].status = 200
        /\ RequestedTopK(h) = 1 /\ RequestedThreshold(h) < 0
        /\ Len(corpus) = 3
        /\ handler[h].resp[1].total_matches = 1

\* get_module_distribution has returned to handler h
Distributed(h) ==
    /\ handler[h].kind = "query"
    /\ Len(handler[h].ops) > 1
    /\ handler[h].pc # "done" \/ Len(handler[h].ops) > 2 \/ handler[h].status = 200

\* C6: the counts of a module distribution sum to the number of results it
\* was computed from, the results without a module counted under
\* "unknown"; in every /query answer they sum to total_matches.
C6_ModuleCountsSum ==
    \A h \in Handlers :
        LET me == handler[h] IN
        /\ Distributed(h) =>
              /\ DistributionTotal(me.module_distribution) = Len(me.results)
              /\ \A i \in 1..Len(me.results) :
                    me.results[i].module = None =>
                        /\ "unknown" \in DOMAIN me.module_distribution
                        /\ me.module_distribution["unknown"] =
                              Cardinality({j \in 1..Len(me.results) :
                                              me.results[j].module = None})
        /\ (me.kind = "query" /\ me.status = 200) =>
              DistributionTotal(me.resp[1].module_distribution) =
                  me.resp[1].total_matches

\* A /query answer of three results in two buckets, one of them "unknown".
C6_Witness ==
    \E h \in Handlers :
        /\ handler[h].kind = "query" /\ handler[h].status = 200
        /\ handler[h].resp[1].total_matches = 3
        /\ DOMAIN handler[h].resp[1].module_distribution = {"unknown", "A"}
        /\ handler[h].resp[1].module_distribution["unknown"] = 1

\* sums of average marks, times AvgScale(corpus)
PoolMarks(studied) ==
    LET P == TopicPool(corpus, studied)
    IN  SumOver([t \in P |-> ScaledAvg(corpus, t)], P)

StudiedMarks(studied) ==
    LET S == {t \in TopicsOf(corpus) : InSeq(t, studied)}
    IN  SumOver([t \in S |-> ScaledAvg(corpus, t)], S)

Planned(h) == handler[h].kind = "strategy" /\ handler[h].ops # <<>>

\* C7 as stated: the plan is infeasible exactly when the average marks of
\* the non-studied topics plus those of the studied topics are less than
\* the target; a feasible plan projects at least the target; an infeasible
\* plan is answered as a result.
C7_FeasibleIffMarksReachTarget ==
    \A h \in Handlers :
        LET me == handler[h] IN
        Planned(h) =>
            /\ me.ops_fitted => me.status = 200
            /\ me.status = 200 =>
                  LET plan == me.resp[1].strategy
                      goal == me.args.target * AvgScale(corpus)
                  IN  /\ ~plan.feasible <=>
                            PoolMarks(me.args.studied_topics)
                              + StudiedMarks(me.args.studied_topics) < goal
                      /\ plan.feasible => plan.projected_marks >= goal

\* C7, amended: the plan is infeasible exactly when the average marks of
\* the non-studied topics alone sum to less than the target (the studied
\* topics add nothing to the planner's total); at equality it is feasible;
\* a feasible plan projects at least the target; an infeasible plan is
\* answered as a result, not as an error.
C7_FeasibleIffPoolReachesTarget ==
    \A h \in Handlers :
        LET me == handler[h] IN
        Planned(h) =>
            /\ me.ops_fitted => me.status = 200
            /\ me.status = 200 =>
                  LET plan == me.resp[1].strategy
                      goal == me.args.target * AvgScale(corpus)
                  IN  /\ ~plan.feasible <=>
                            PoolMarks(me.args.studied_topics) < goal
                      /\ plan.feasible => plan.projected_marks >= goal

\* A plan for a target that the non-studied topics reach exactly, in a
\* corpus where a topic has several questions, was found feasible.
C7_Witness ==
    \E h \in Handlers :
        /\ Planned(h) /\ handler[h].status = 200
        /\ handler[h].args.studied_topics = <<"Sorting">>
        /\ "Sorting" \in TopicsOf(corpus)
        /\ AvgScale(corpus) > 1
        /\ PoolMarks(handler[h].args.studied_topics) =
              handler[h].args.target * AvgScale(corpus)
        /\ handler[h].resp[1].strategy.feasible

====
